---- MODULE Spec2Model ----
(***************************************************************************)
(* Model of the reading tracker (src/index.tsx): the record store held by  *)
(* the App component, the handlers that replace it, the form state that    *)
(* feeds the handlers, the derived views (streak, monthly leaderboard,     *)
(* daily-activity chart) and the loader that reads the storage slot.       *)
(*                                                                         *)
(* Encodings.                                                              *)
(*  - A time value is a number of hours since 2024-01-01T00:00Z.           *)
(*  - A date string "YYYY-MM-DD" is the tuple <<y, m, d>>; the month       *)
(*    string "YYYY-MM" is its prefix <<y, m>>.                             *)
(*  - A JavaScript number is held in half units: 1 is 0.5, 2 is 1, 5 is    *)
(*    2.5, so a number is an integer iff its encoding is even.             *)
(*  - A JavaScript object is a heap cell: records maps a date string to    *)
(*    the reference of the cell holding that day's sub-map, so that two    *)
(*    store values sharing a sub-map share its contents.                   *)
(*  - The seed names "爱丽丝", "鲍勃", "查理", "黛娜", "伊芙" are written     *)
(*    Alice, Bob, Charlie, Dana, Eve.                                      *)
(***************************************************************************)
EXTENDS Integers, Sequences, FiniteSets, TLC

VARIABLES
    data,          \* App state: [users, records], records : date -> heap reference
    heap,          \* heap reference -> sub-map (member -> number) or Free
    prevData,      \* the store value published before the last setData
    prevSnap,      \* contents of prevData when it was replaced
    now,           \* the host clock
    zone,          \* the host time zone
    selectedUser,  \* CheckInForm state
    chapters,      \* CheckInForm state
    editingState,  \* DailyReport state
    newUser,       \* UserManagement state
    alerted,       \* the message of the alert raised by the last handler, or "none"
    lastOp,        \* the last handler that ran and its arguments
    ops,           \* number of handler runs so far
    slot,          \* content of the localStorage slot
    loaded,        \* value returned by getInitialData
    view           \* last derived view computed

vars == <<data, heap, prevData, prevSnap, now, zone, selectedUser, chapters,
          editingState, newUser, alerted, lastOp, ops, slot, loaded, view>>

Range(s) == {s[i] : i \in 1..Len(s)}

----------------------------------------------------------------------------
(* Calendar and the Date object.                                           *)

IsLeap(y) == (y % 4 = 0 /\ y % 100 # 0) \/ y % 400 = 0

DaysIn(y, m) ==
    IF m = 2 THEN (IF IsLeap(y) THEN 29 ELSE 28)
    ELSE IF m \in {4, 6, 9, 11} THEN 30 ELSE 31

\* the civil date n days after the first of month m of year y
RECURSIVE CivilFrom(_, _, _)
CivilFrom(y, m, n) ==
    IF n < 0
    THEN LET py == IF m = 1 THEN y - 1 ELSE y
             pm == IF m = 1 THEN 12 ELSE m - 1
         IN  CivilFrom(py, pm, n + DaysIn(py, pm))
    ELSE IF n >= DaysIn(y, m)
    THEN CivilFrom(IF m = 12 THEN y + 1 ELSE y, IF m = 12 THEN 1 ELSE m + 1,
                   n - DaysIn(y, m))
    ELSE <<y, m, n + 1>>

Civil(day) == CivilFrom(2024, 1, day)

\* day number of the first day of month m (1-based, may overflow to 13) of year y
RECURSIVE MonthStart(_, _)
MonthStart(y, m) ==
    IF m > 12 THEN MonthStart(y + 1, m - 12)
    ELSE IF y = 2024 /\ m = 1 THEN 0
    ELSE IF y > 2024 \/ (y = 2024 /\ m > 1)
    THEN LET py == IF m = 1 THEN y - 1 ELSE y
             pm == IF m = 1 THEN 12 ELSE m - 1
         IN  MonthStart(py, pm) + DaysIn(py, pm)
    ELSE LET ny == IF m = 12 THEN y + 1 ELSE y
             nm == IF m = 12 THEN 1 ELSE m + 1
         IN  MonthStart(ny, nm) - DaysIn(y, m)

\* MakeDay(year, month index, date) of the language: date may be 0 or less
MakeDay(y, monthIndex, dt) == MonthStart(y, monthIndex + 1) + dt - 1

\* host time zones: offset `before` (hours) until instant `at`, `after` from it
UTCZone      == [name |-> "UTC",            before |-> 0,  after |-> 0,  at |-> 0]
ShanghaiZone == [name |-> "Asia/Shanghai",  before |-> 8,  after |-> 8,  at |-> 0]
BogotaZone   == [name |-> "America/Bogota", before |-> -5, after |-> -5, at |-> 0]
\* Europe/Berlin enters summer time on 2024-03-31 at 01:00Z
BerlinZone   == [name |-> "Europe/Berlin",  before |-> 1,  after |-> 2,
                 at |-> MakeDay(2024, 2, 31) * 24 + 1]
Zones == {UTCZone, ShanghaiZone, BogotaZone, BerlinZone}

Offset(z, t) == IF t < z.at THEN z.before ELSE z.after
LocalTime(z, t) == t + Offset(z, t)
\* UTC(t) of the language: a local time is read with the offset in force
\* before the transition when it is repeated or skipped
UTCOf(z, local) ==
    IF local - z.before < z.at THEN local - z.before
    ELSE IF local - z.after >= z.at THEN local - z.after
    ELSE local - z.before

\* d.toISOString().split("T")[0]
ISODate(t) == Civil(t \div 24)
\* getTodayDateString
getTodayDateString(t) == ISODate(t)
\* getMonthFromDateString: substring(0, 7)
getMonthFromDateString(dateString) == SubSeq(dateString, 1, 2)
\* new Date("YYYY-MM-DD") and new Date("YYYY-MM"): date-only forms are UTC
ParseDate(s) ==
    MakeDay(s[1], s[2] - 1, IF Len(s) >= 3 THEN s[3] ELSE 1) * 24
\* new Date(y, monthIndex, dt): the fields are local time
LocalDate(z, y, monthIndex, dt) == UTCOf(z, MakeDay(y, monthIndex, dt) * 24)
getFullYear(z, t) == Civil(LocalTime(z, t) \div 24)[1]
getMonth(z, t)    == Civil(LocalTime(z, t) \div 24)[2] - 1
getDate(z, t)     == Civil(LocalTime(z, t) \div 24)[3]
\* d.setDate(dt): the local date is replaced, the local time of day kept
setDate(z, t, dt) ==
    LET local == LocalTime(z, t)
        c     == Civil(local \div 24)
    IN  UTCOf(z, MakeDay(c[1], c[2] - 1, dt) * 24 + (local % 24))

----------------------------------------------------------------------------
(* Derived views.  `records` here is the content of the store: a function  *)
(* from date strings to sub-maps (functions from member names to numbers). *)

\* the truth value of records[dateStr] && records[dateStr][user]
HasTruthyEntry(records, dateStr, user) ==
    /\ dateStr \in DOMAIN records
    /\ user \in DOMAIN records[dateStr]
    /\ records[dateStr][user] # 0

RECURSIVE StreakWalk(_, _, _, _, _)
StreakWalk(user, records, z, d, count) ==
    IF HasTruthyEntry(records, ISODate(d), user)
    THEN StreakWalk(user, records, z, setDate(z, d, getDate(z, d) - 1), count + 1)
    ELSE count

calculateConsecutiveDays(user, records, z, t) == StreakWalk(user, records, z, t, 0)

RECURSIVE SumOver(_, _, _)
SumOver(records, dates, user) ==
    IF dates = {} THEN 0
    ELSE LET k == CHOOSE x \in dates : TRUE
         IN  records[k][user] + SumOver(records, dates \ {k}, user)

\* keys of an object built by assigning users[1], users[2], ... in turn
RECURSIVE KeyOrder(_)
KeyOrder(users) ==
    IF users = <<>> THEN <<>>
    ELSE LET front == KeyOrder(SubSeq(users, 1, Len(users) - 1))
             last  == users[Len(users)]
         IN  IF last \in Range(front) THEN front ELSE Append(front, last)

\* the sort with the comparator reversed, (a, b) => a.total - b.total
RECURSIVE SortByTotalAscending(_)
SortByTotalAscending(rows) ==
    IF rows = <<>> THEN <<>>
    ELSE LET front == SortByTotalAscending(SubSeq(rows, 1, Len(rows) - 1))
             r     == rows[Len(rows)]
             pos   == Cardinality({i \in 1..Len(front) : front[i].total <= r.total})
         IN  SubSeq(front, 1, pos) \o <<r>> \o SubSeq(front, pos + 1, Len(front))

\* Array.prototype.sort with (a, b) => b.total - a.total: stable, descending
RECURSIVE SortByTotal(_)
SortByTotal(rows) ==
    IF rows = <<>> THEN <<>>
    ELSE LET front == SortByTotal(SubSeq(rows, 1, Len(rows) - 1))
             r     == rows[Len(rows)]
             pos   == Cardinality({i \in 1..Len(front) : front[i].total >= r.total})
         IN  SubSeq(front, 1, pos) \o <<r>> \o SubSeq(front, pos + 1, Len(front))

monthlyStats(users, records, z, t) ==
    LET currentMonth == getMonthFromDateString(getTodayDateString(t))
        keys   == KeyOrder(users)
        total(u) == SumOver(records,
                            {k \in DOMAIN records :
                                /\ getMonthFromDateString(k) = currentMonth
                                /\ u \in DOMAIN records[k]}, u)
        rows   == [i \in 1..Len(keys) |->
                     [user |-> keys[i], total |-> total(keys[i]),
                      consecutiveDays |->
                          calculateConsecutiveDays(keys[i], records, z, t)]]
    IN  SortByTotal(rows)

DateLess(a, b) ==
    \/ a[1] < b[1]
    \/ a[1] = b[1] /\ a[2] < b[2]
    \/ a[1] = b[1] /\ a[2] = b[2] /\ a[3] < b[3]

\* the date keys of records in the order `for (const date in records)` meets
\* them: the order of insertion, which is the order of the days
RECURSIVE DateOrder(_)
DateOrder(dates) ==
    IF dates = {} THEN <<>>
    ELSE LET k == CHOOSE x \in dates : \A y \in dates : x = y \/ DateLess(x, y)
         IN  <<k>> \o DateOrder(dates \ {k})

RECURSIVE Ascending(_)
Ascending(S) ==
    IF S = {} THEN <<>>
    ELSE LET k == CHOOSE x \in S : \A y \in S : x <= y
         IN  <<k>> \o Ascending(S \ {k})

\* dailyCounts after the dates in `order` have been visited
RECURSIVE CountDays(_, _, _, _, _)
CountDays(records, z, currentMonth, order, dailyCounts) ==
    IF order = <<>> THEN dailyCounts
    ELSE LET date == Head(order)
             day  == getDate(z, ParseDate(date))
             count == Cardinality(DOMAIN records[date])
             next == IF getMonthFromDateString(date) = currentMonth
                     THEN [d \in DOMAIN dailyCounts \cup {day} |->
                             IF d = day THEN count ELSE dailyCounts[d]]
                     ELSE dailyCounts
         IN  CountDays(records, z, currentMonth, Tail(order), next)

chartData(records, z, t) ==
    LET currentMonth == getMonthFromDateString(getTodayDateString(t))
        first        == ParseDate(currentMonth)
        daysInMonth  == getDate(z, LocalDate(z, getFullYear(z, first),
                                             getMonth(z, first) + 1, 0))
        dailyCounts  == CountDays(records, z, currentMonth,
                                  DateOrder(DOMAIN records),
                                  [i \in 1..daysInMonth |-> 0])
        days         == Ascending(DOMAIN dailyCounts)
    IN  [i \in 1..Len(days) |-> [day |-> days[i], count |-> dailyCounts[days[i]]]]

----------------------------------------------------------------------------
(* The store and the heap.                                                 *)

SeedUsers == <<"Alice", "Bob", "Charlie", "Dana", "Eve">>

\* the default initial state of getInitialData
DefaultData == [users |-> SeedUsers, records |-> <<>>]

\* numbers are held in half units
Chapters(n) == 2 * n

\* what a reader sees through the store value d: date -> sub-map
Content(d, h) == [k \in DOMAIN d.records |-> h[d.records[k]]]

NoEdit == [editing |-> FALSE]
NoView == [kind |-> "none"]
\* localStorage.getItem returns null: nothing was ever saved
EmptySlot == [kind |-> "missing"]

----------------------------------------------------------------------------
(* JSON values, as JSON.parse returns them and JSON.stringify writes them. *)

JNull      == [type |-> "null"]
JStr(v)    == [type |-> "string", value |-> v]
JNum(v)    == [type |-> "number", value |-> v]
JArr(xs)   == [type |-> "array", items |-> xs]
JObj(fs)   == [type |-> "object", fields |-> fs]

\* JSON.stringify(data), kept in parsed form
ToJSON(d, h) ==
    JObj([f \in {"users", "records"} |->
            IF f = "users"
            THEN JArr([i \in 1..Len(d.users) |-> JStr(d.users[i])])
            ELSE JObj([k \in DOMAIN d.records |->
                         JObj([u \in DOMAIN h[d.records[k]] |->
                                 JNum(h[d.records[k]][u])])])])

\* the effect of App that saves data under APP_STORAGE_KEY
Saved(d, h) == [kind |-> "json", value |-> ToJSON(d, h)]

JUndefined == [type |-> "undefined"]

\* data.f: undefined unless data is an object with the field; reading a
\* field of null throws
Field(v, f) ==
    IF v.type = "object" /\ f \in DOMAIN v.fields THEN v.fields[f] ELSE JUndefined

isArray(v) == v.type = "array"
\* typeof v === 'object'
TypeofIsObject(v) == v.type \in {"object", "array", "null"}

\* the try block of getInitialData: it returns, throws, or falls through
TryLoad(s) ==
    IF s.kind \in {"missing", "empty"} THEN [outcome |-> "fallthrough"]
    ELSE IF s.kind = "unparsable" THEN [outcome |-> "throw"]
    ELSE IF s.value.type = "null" THEN [outcome |-> "throw"]
    ELSE IF isArray(Field(s.value, "users"))
            /\ TypeofIsObject(Field(s.value, "records"))
    THEN [outcome |-> "return", value |-> s.value]
    ELSE [outcome |-> "fallthrough"]

getInitialData(s) ==
    IF TryLoad(s).outcome = "return" THEN TryLoad(s).value
    ELSE ToJSON(DefaultData, <<>>)

----------------------------------------------------------------------------
(* Derived views over bounded stores.                                      *)

StatsNames == {"Alice", "Bob"}
StatsUserLists == {<<>>, <<"Alice">>, <<"Alice", "Bob">>, <<"Bob", "Alice">>}
StatsDates == {<<2024, 3, 30>>, <<2024, 3, 31>>, <<2024, 4, 1>>}
StatsInstants ==
    {ParseDate(<<2024, 3, 31>>) + 12, ParseDate(<<2024, 3, 31>>) + 23,
     ParseDate(<<2024, 4, 1>>) + 12}
StatsCounts == {Chapters(1), Chapters(2)}
StatsSubMaps == UNION {[T -> StatsCounts] : T \in SUBSET StatsNames}
StatsContents == UNION {[D -> StatsSubMaps] : D \in SUBSET StatsDates}

\* the store whose records hold content c, one heap cell per date
StoreOf(users, c) ==
    LET order == DateOrder(DOMAIN c)
    IN  [data |-> [users |-> users,
                   records |-> [k \in DOMAIN c |->
                                  CHOOSE r \in 1..Len(order) : order[r] = k]],
         heap |-> [r \in 1..Len(order) |-> c[order[r]]]]

StatsInit ==
    /\ \E users \in StatsUserLists, c \in StatsContents :
          /\ data = StoreOf(users, c).data
          /\ heap = StoreOf(users, c).heap
          /\ prevData = StoreOf(users, c).data
          /\ prevSnap = c
    /\ now \in StatsInstants
    /\ zone \in Zones
    /\ selectedUser = ""
    /\ chapters = ""
    /\ editingState = NoEdit
    /\ newUser = ""
    /\ alerted = "none"
    /\ lastOp = [kind |-> "init"]
    /\ ops = 0
    /\ slot = EmptySlot
    /\ loaded = JUndefined
    /\ view = NoView

StatsFrame ==
    UNCHANGED <<data, heap, prevData, prevSnap, now, zone, selectedUser,
                chapters, editingState, newUser, alerted, lastOp, ops, slot,
                loaded>>

\* one row of the leaderboard asks for the member's streak
RenderStreak(user) ==
    /\ view = NoView
    /\ view' = [kind |-> "streak", user |-> user,
                value |-> calculateConsecutiveDays(user, Content(data, heap),
                                                   zone, now)]
    /\ StatsFrame

RenderLeaderboard ==
    /\ view = NoView
    /\ view' = [kind |-> "monthly",
                rows |-> monthlyStats(data.users, Content(data, heap), zone, now)]
    /\ StatsFrame

RenderChart ==
    /\ view = NoView
    /\ view' = [kind |-> "chart",
                points |-> chartData(Content(data, heap), zone, now)]
    /\ StatsFrame

StatsNext ==
    \/ \E user \in StatsNames : RenderStreak(user)
    \/ RenderLeaderboard
    \/ RenderChart

StatsSpec == StatsInit /\ [][StatsNext]_vars

----------------------------------------------------------------------------
(* Properties of the derived views.                                        *)

Today == getTodayDateString(now)
CurrentMonth == getMonthFromDateString(Today)
Store == Content(data, heap)

HasEntry(records, dateStr, user) ==
    dateStr \in DOMAIN records /\ user \in DOMAIN records[dateStr]

\* the number of consecutive calendar days, ending with day number `day`,
\* on which the member has an entry
ConsecutiveDaysEnding(records, user, day) ==
    CHOOSE n \in 0..Cardinality(DOMAIN records) :
        /\ \A i \in 0..(n - 1) : HasEntry(records, Civil(day - i), user)
        /\ ~HasEntry(records, Civil(day - n), user)

\* C7: calculateConsecutiveDays(m, records) returns the number N of
\* consecutive calendar days ending today on each of which m has an entry,
\* the day before them having none; 0 when m has no entry today.
C7_StreakCountsConsecutiveDays ==
    view.kind = "streak" =>
        view.value = ConsecutiveDaysEnding(Store, view.user, now \div 24)

RECURSIVE MonthTotalUpTo(_, _, _, _)
MonthTotalUpTo(records, month, user, d) ==
    IF d = 0 THEN 0
    ELSE (IF HasEntry(records, month \o <<d>>, user)
          THEN records[month \o <<d>>][user] ELSE 0)
         + MonthTotalUpTo(records, month, user, d - 1)

MonthTotal(records, month, user) ==
    MonthTotalUpTo(records, month, user, DaysIn(month[1], month[2]))

\* C8: the leaderboard has exactly one row per name in users and no other
\* row, each total is the sum of the member's counts over the dates of the
\* current month, and the rows are in non-increasing order of total.
C8_LeaderboardRows ==
    view.kind = "monthly" =>
        LET rows == view.rows
        IN  /\ {rows[i].user : i \in 1..Len(rows)} = Range(data.users)
            /\ Len(rows) = Cardinality(Range(data.users))
            /\ \A i \in 1..Len(rows) :
                  rows[i].total = MonthTotal(Store, CurrentMonth, rows[i].user)
            /\ \A i, j \in 1..Len(rows) :
                  i < j => rows[i].total >= rows[j].total

\* a leaderboard whose second-listed member leads, both with chapters this
\* month, while an entry of another month is left out of the totals
C8_Witness ==
    /\ view.kind = "monthly"
    /\ Len(view.rows) = 2
    /\ view.rows[1].user = data.users[2]
    /\ view.rows[1].total > view.rows[2].total
    /\ view.rows[2].total > 0
    /\ \E k \in DOMAIN Store :
          /\ getMonthFromDateString(k) # CurrentMonth
          /\ view.rows[1].user \in DOMAIN Store[k]

\* C9: the daily-activity series has one point per day of the current
\* month, numbered 1, 2, ... in order, and the count of day d is the number
\* of members with an entry under that day's date key.
C9_ChartCoversMonth ==
    view.kind = "chart" =>
        LET points == view.points
            n == DaysIn(CurrentMonth[1], CurrentMonth[2])
        IN  /\ Len(points) = n
            /\ \A i \in 1..Len(points) :
                  /\ points[i].day = i
                  /\ points[i].count =
                        (IF CurrentMonth \o <<i>> \in DOMAIN Store
                         THEN Cardinality(DOMAIN Store[CurrentMonth \o <<i>>])
                         ELSE 0)

----------------------------------------------------------------------------
(* The application: form state, handlers and the setData updaters.         *)

MaxOps == 3

\* texts a user may type into a number input, and names into the text input
ChapterTexts == {"", "0", "-1", "1", "2", "0.5", "2.5", "abc"}
RawNames == {"  ", "Frank", "Bob", " Bob "}

\* a valid floating-point number, as the number input understands it
IsFloatText(text) == text \in {"0", "-1", "1", "2", "0.5", "2.5"}
\* e.target.value of <input type="number">: the empty string unless the
\* text is a valid floating-point number
InputValue(text) == IF IsFloatText(text) THEN text ELSE ""

\* +chapters, in half units
ToNumber(text) ==
    CASE text = ""    -> 0
      [] text = "0"   -> 0
      [] text = "-1"  -> -2
      [] text = "1"   -> 2
      [] text = "2"   -> 4
      [] text = "0.5" -> 1
      [] text = "2.5" -> 5

\* String(chapters)
NumberToString(n) ==
    CASE n = 0  -> "0"
      [] n = -2 -> "-1"
      [] n = 2  -> "1"
      [] n = 4  -> "2"
      [] n = 1  -> "0.5"
      [] n = 5  -> "2.5"

\* newUser.trim()
Trim(raw) ==
    CASE raw = "  "      -> ""
      [] raw = " Bob "   -> "Bob"
      [] raw = " Frank " -> "Frank"
      [] OTHER           -> raw

\* the form's number input carries min="1" and the default step: the
\* browser does not dispatch submit while its value is below 1 or not a
\* whole number; an empty value passes, the input not being required
PassesValidation(value) ==
    value = "" \/ (ToNumber(value) >= Chapters(1) /\ ToNumber(value) % 2 = 0)

\* a reference not in use
NewRef(h) == CHOOSE r \in 1..(Cardinality(DOMAIN h) + 1) : r \notin DOMAIN h

\* the cells still referenced by the current and the previous store value
Reachable(h, d1, d2) ==
    [r \in {d1.records[k] : k \in DOMAIN d1.records}
           \cup {d2.records[k] : k \in DOMAIN d2.records} |-> h[r]]

\* the sub-map of a check-in that adds to the member's count of the day
WithEntryAdded(h, prev, today, user, count) ==
    LET old == IF today \in DOMAIN prev.records THEN h[prev.records[today]]
               ELSE <<>>
    IN  [u \in DOMAIN old \cup {user} |->
            IF u # user THEN old[u]
            ELSE IF user \in DOMAIN old THEN old[user] + count ELSE count]

\* { ...prevData.records[today], [user]: chapters }
WithEntry(h, prev, today, user, count) ==
    LET old == IF today \in DOMAIN prev.records THEN h[prev.records[today]]
               ELSE <<>>
    IN  [u \in DOMAIN old \cup {user} |-> IF u = user THEN count ELSE old[u]]

\* the updater of handleCheckIn: the next data and the heap it lives in
checkInUpdater(prev, h, today, user, count) ==
    LET cell == NewRef(h)
    IN  [data |-> [users   |-> prev.users,
                   records |-> [k \in DOMAIN prev.records \cup {today} |->
                                  IF k = today THEN cell ELSE prev.records[k]]],
         heap |-> [r \in DOMAIN h \cup {cell} |->
                     IF r = cell
                     THEN WithEntry(h, prev, today, user, count)
                     ELSE h[r]]]

\* a membership test that looks at the first member only
includesFirstOnly(users, name) == Len(users) > 0 /\ users[1] = name

\* users.includes(newUser)
includes(users, name) == name \in Range(users)

\* the updater of handleAddUser
addUserUpdater(prev, name) ==
    [users |-> Append(prev.users, name), records |-> prev.records]

\* prevData.users.filter(u => u !== userToRemove)
FilterOut(users, userToRemove) ==
    SelectSeq(users, LAMBDA u : u # userToRemove)

\* a cleanup that visits the sub-map of the latest date only
DeleteEntriesLatestOnly(h, records, userToRemove) ==
    [r \in DOMAIN h |->
        IF /\ \E k \in DOMAIN records :
                /\ records[k] = r
                /\ \A y \in DOMAIN records : y = k \/ DateLess(y, k)
           /\ userToRemove \in DOMAIN h[r]
           /\ h[r][userToRemove] # 0
        THEN [u \in DOMAIN h[r] \ {userToRemove} |-> h[r][u]]
        ELSE h[r]]

\* delete newRecords[date][userToRemove], wherever the entry is truthy: the
\* sub-maps are those of prevData, newRecords being a shallow copy
DeleteEntries(h, records, userToRemove) ==
    [r \in DOMAIN h |->
        IF /\ r \in {records[k] : k \in DOMAIN records}
           /\ userToRemove \in DOMAIN h[r]
           /\ h[r][userToRemove] # 0
        THEN [u \in DOMAIN h[r] \ {userToRemove} |-> h[r][u]]
        ELSE h[r]]

\* the updater of handleRemoveUser
removeUserUpdater(prev, h, userToRemove) ==
    [data |-> [users   |-> FilterOut(prev.users, userToRemove),
               records |-> prev.records],
     heap |-> DeleteEntries(h, prev.records, userToRemove)]

\* the effect of CheckInForm that selects the first member when none is
SyncSelected(sel, users) == IF sel = "" /\ Len(users) > 0 THEN users[1] ELSE sel

AppStart == ParseDate(<<2024, 3, 31>>) + 6
AppEnd   == ParseDate(<<2024, 4, 2>>)

Init ==
    /\ data = DefaultData
    /\ heap = <<>>
    /\ prevData = DefaultData
    /\ prevSnap = <<>>
    /\ now = AppStart
    /\ zone = ShanghaiZone
    /\ selectedUser = SeedUsers[1]
    /\ chapters = ""
    /\ editingState = NoEdit
    /\ newUser = ""
    /\ alerted = "none"
    /\ lastOp = [kind |-> "init"]
    /\ ops = 0
    /\ slot = Saved(DefaultData, <<>>)
    /\ loaded = getInitialData(EmptySlot)
    /\ view = NoView

\* setData(updater): the store value is replaced and saved
Publish(next) ==
    /\ prevData' = data
    /\ prevSnap' = Content(data, heap)
    /\ data' = next.data
    /\ heap' = Reachable(next.heap, next.data, data)
    /\ slot' = Saved(next.data, next.heap)
    /\ selectedUser' = SyncSelected(selectedUser, next.data.users)

NoPublish ==
    UNCHANGED <<data, heap, prevData, prevSnap, slot, selectedUser>>

Step == ops < MaxOps /\ ops' = ops + 1 /\ UNCHANGED <<now, zone, loaded, view>>

\* handleCheckIn
handleCheckIn(user, number) ==
    Publish(checkInUpdater(data, heap, Today, user, number))

\* the select of CheckInForm: onChange
SelectUser(user) ==
    /\ Step
    /\ user \in Range(data.users)
    /\ selectedUser' = user
    /\ alerted' = "none"
    /\ lastOp' = [kind |-> "select", user |-> user]
    /\ UNCHANGED <<data, heap, prevData, prevSnap, slot, chapters,
                   editingState, newUser>>

\* CheckInForm: the field is filled with text and the form is submitted
SubmitCheckIn(text) ==
    LET value == InputValue(text)
    IN  /\ Step
        /\ UNCHANGED <<editingState, newUser>>
        /\ IF ~PassesValidation(value)
           THEN /\ chapters' = value
                /\ alerted' = "none"
                /\ lastOp' = [kind |-> "blocked", text |-> text]
                /\ NoPublish
           ELSE IF selectedUser = "" \/ value = "" \/ ToNumber(value) <= 0
           THEN /\ chapters' = value
                /\ alerted' = "invalid"
                /\ lastOp' = [kind |-> "checkin", user |-> selectedUser,
                              text |-> text, applied |-> FALSE]
                /\ NoPublish
           ELSE /\ handleCheckIn(selectedUser, ToNumber(value))
                /\ chapters' = ""
                /\ alerted' = "none"
                /\ lastOp' = [kind |-> "checkin", user |-> selectedUser,
                              text |-> text, applied |-> TRUE]

\* DailyReport.handleStartEdit, from the row of a member checked in today
handleStartEdit(user) ==
    /\ Step
    /\ user \in Range(data.users)
    /\ HasEntry(Store, Today, user)
    /\ ~(editingState.editing /\ editingState.user = user)
    /\ editingState' = [editing |-> TRUE, user |-> user,
                        chapters |-> NumberToString(Store[Today][user])]
    /\ alerted' = "none"
    /\ lastOp' = [kind |-> "startEdit", user |-> user]
    /\ UNCHANGED <<chapters, newUser>>
    /\ NoPublish

\* DailyReport.handleCancelEdit
handleCancelEdit ==
    /\ Step
    /\ editingState.editing
    /\ editingState' = NoEdit
    /\ alerted' = "none"
    /\ lastOp' = [kind |-> "cancelEdit"]
    /\ UNCHANGED <<chapters, newUser>>
    /\ NoPublish

\* DailyReport: the edit field is filled with text and Save is pressed
handleSave(text) ==
    LET value == InputValue(text)
    IN  /\ Step
        /\ editingState.editing
        /\ UNCHANGED <<chapters, newUser>>
        /\ IF ToNumber(value) > 0
           THEN /\ handleCheckIn(editingState.user, ToNumber(value))
                /\ editingState' = NoEdit
                /\ alerted' = "none"
                /\ lastOp' = [kind |-> "edit", user |-> editingState.user,
                              text |-> text, applied |-> TRUE]
           ELSE /\ editingState' = [editingState EXCEPT !.chapters = value]
                /\ alerted' = "invalid"
                /\ lastOp' = [kind |-> "edit", user |-> editingState.user,
                              text |-> text, applied |-> FALSE]
                /\ NoPublish

\* UserManagement.handleAdd and handleAddUser: a name is typed and submitted
handleAdd(raw) ==
    /\ Step
    /\ UNCHANGED <<chapters, editingState>>
    /\ IF Trim(raw) = ""
       THEN /\ newUser' = raw
            /\ alerted' = "none"
            /\ lastOp' = [kind |-> "add", raw |-> raw, name |-> "",
                          applied |-> FALSE]
            /\ NoPublish
       ELSE IF includes(data.users, Trim(raw))
       THEN /\ newUser' = ""
            /\ alerted' = "exists"
            /\ lastOp' = [kind |-> "add", raw |-> raw, name |-> Trim(raw),
                          applied |-> FALSE]
            /\ NoPublish
       ELSE /\ Publish([data |-> addUserUpdater(data, Trim(raw)), heap |-> heap])
            /\ newUser' = ""
            /\ alerted' = "none"
            /\ lastOp' = [kind |-> "add", raw |-> raw, name |-> Trim(raw),
                          applied |-> TRUE]

\* handleRemoveUser, from the row of a member that is not being edited
handleRemoveUser(userToRemove, confirmed) ==
    /\ Step
    /\ userToRemove \in Range(data.users)
    /\ ~(editingState.editing /\ editingState.user = userToRemove)
    /\ alerted' = "none"
    /\ lastOp' = [kind |-> "remove", user |-> userToRemove,
                  applied |-> confirmed]
    /\ UNCHANGED <<chapters, editingState, newUser>>
    /\ IF confirmed
       THEN Publish(removeUserUpdater(data, heap, userToRemove))
       ELSE NoPublish

\* the clock moves on
Tick ==
    /\ now + 12 < AppEnd
    /\ now' = now + 12
    /\ alerted' = "none"
    /\ lastOp' = [kind |-> "tick"]
    /\ UNCHANGED <<data, heap, prevData, prevSnap, zone, selectedUser,
                   chapters, editingState, newUser, ops, slot, loaded, view>>

Next ==
    \/ \E user \in Range(SeedUsers) \cup {Trim(r) : r \in RawNames} :
          SelectUser(user)
    \/ \E text \in ChapterTexts : SubmitCheckIn(text)
    \/ \E user \in Range(data.users) : handleStartEdit(user)
    \/ handleCancelEdit
    \/ \E text \in ChapterTexts : handleSave(text)
    \/ \E raw \in RawNames : handleAdd(raw)
    \/ \E user \in Range(data.users), confirmed \in BOOLEAN :
          handleRemoveUser(user, confirmed)
    \/ Tick

Spec == Init /\ [][Next]_vars

----------------------------------------------------------------------------
(* Properties of the store under the user-facing operations.               *)

\* C1: every member name that is a key of some records[date] is in users.
C1_RecordKeysAreMembers ==
    \A k \in DOMAIN Store : DOMAIN Store[k] \subseteq Range(data.users)

\* C2: the store value replaced by the last mutation still holds the
\* contents it held when it was replaced.
C2_PublishedStoreUntouched ==
    /\ DOMAIN prevData.records = DOMAIN prevSnap
    /\ Content(prevData, heap) = prevSnap

\* C3: every stored chapter count is an integer greater than or equal to 1.
C3_CountsAreWholeAndPositive ==
    \A k \in DOMAIN Store : \A u \in DOMAIN Store[k] :
        Store[k][u] % 2 = 0 /\ Store[k][u] >= Chapters(1)

\* C4: after a confirmed removal of m, m is not in users, no records[date]
\* has the key m, and the monthly leaderboard has no row for m.
C4_RemovedMemberIsGone ==
    (lastOp.kind = "remove" /\ lastOp.applied) =>
        LET rows == monthlyStats(data.users, Store, zone, now)
        IN  /\ lastOp.user \notin Range(data.users)
            /\ \A k \in DOMAIN Store : lastOp.user \notin DOMAIN Store[k]
            /\ \A i \in 1..Len(rows) : rows[i].user # lastOp.user

\* a member with entries on two dates has just been removed
C4_Witness ==
    /\ lastOp.kind = "remove"
    /\ lastOp.applied
    /\ Cardinality({k \in DOMAIN prevSnap : lastOp.user \in DOMAIN prevSnap[k]}) >= 2

\* C5: adding a name that is already in users leaves users and records as
\* they were and reports the duplicate; users never holds a name twice.
C5_DuplicateAddRejected ==
    /\ [](Cardinality(Range(data.users)) = Len(data.users))
    /\ [][(lastOp'.kind = "add" /\ lastOp'.name \in Range(data.users)) =>
            (data' = data /\ heap' = heap /\ alerted' = "exists")]_vars

\* a name typed with surrounding blanks was found in users and reported
C5_Witness ==
    /\ lastOp.kind = "add"
    /\ lastOp.raw # lastOp.name
    /\ lastOp.name \in Range(data.users)
    /\ ~lastOp.applied
    /\ alerted = "exists"

\* C6: a check-in, and likewise an edit, of member m with count c leaves
\* records[today][m] = c whatever m's count for today was before, and every
\* other entry of today and of every other date as it was.
C6_CheckInOverwrites ==
    (lastOp.kind \in {"checkin", "edit"} /\ lastOp.applied) =>
        LET m == lastOp.user
            c == ToNumber(InputValue(lastOp.text))
        IN  /\ DOMAIN Store = DOMAIN prevSnap \cup {Today}
            /\ HasEntry(Store, Today, m)
            /\ Store[Today][m] = c
            /\ \A k \in DOMAIN Store :
                  /\ DOMAIN Store[k] \ {m} =
                        (IF k \in DOMAIN prevSnap THEN DOMAIN prevSnap[k] ELSE {}) \ {m}
                  /\ k # Today => DOMAIN Store[k] = DOMAIN prevSnap[k]
                  /\ \A u \in DOMAIN Store[k] :
                        (k # Today \/ u # m) => Store[k][u] = prevSnap[k][u]

\* a second check-in of the same member on the same day with another count
C6_Witness ==
    /\ lastOp.kind = "checkin"
    /\ lastOp.applied
    /\ HasEntry(prevSnap, Today, lastOp.user)
    /\ prevSnap[Today][lastOp.user] # Store[Today][lastOp.user]
    /\ prevSnap[Today][lastOp.user] > 0

----------------------------------------------------------------------------
(* Loading from the storage slot.                                          *)

SlotUsers ==
    {JNull, JNum(1), JStr("Alice"), JObj(<<>>), JArr(<<>>),
     JArr(<<JStr("Alice")>>), JArr(<<JStr("Alice"), JStr("Bob")>>),
     JArr(<<JNum(1)>>), JArr(<<JStr("Alice"), JNull>>)}
SlotRecords ==
    {JNull, JNum(1), JStr("x"), JArr(<<>>), JArr(<<JNum(1)>>), JObj(<<>>),
     JObj([k \in {<<2024, 3, 31>>} |-> JObj([u \in {"Alice"} |-> JNum(2)])])}
SlotObjects ==
    UNION {[F -> SlotUsers \cup SlotRecords] : F \in SUBSET {"users", "records"}}
SlotValues ==
    {JNull, JNum(1), JStr("x"), JArr(<<>>)}
    \cup {JObj(fs) : fs \in {f \in SlotObjects :
                               /\ "users" \in DOMAIN f => f["users"] \in SlotUsers
                               /\ "records" \in DOMAIN f => f["records"] \in SlotRecords}}
Slots ==
    {[kind |-> "missing"], [kind |-> "empty"], [kind |-> "unparsable"]}
    \cup {[kind |-> "json", value |-> v] : v \in SlotValues}

LoadInit ==
    /\ slot \in Slots
    /\ loaded = JUndefined
    /\ data = DefaultData
    /\ heap = <<>>
    /\ prevData = DefaultData
    /\ prevSnap = <<>>
    /\ now = AppStart
    /\ zone = ShanghaiZone
    /\ selectedUser = ""
    /\ chapters = ""
    /\ editingState = NoEdit
    /\ newUser = ""
    /\ alerted = "none"
    /\ lastOp = [kind |-> "init"]
    /\ ops = 0
    /\ view = NoView

\* useState(getInitialData)
Load ==
    /\ loaded = JUndefined
    /\ loaded' = getInitialData(slot)
    /\ lastOp' = [kind |-> "load"]
    /\ UNCHANGED <<data, heap, prevData, prevSnap, now, zone, selectedUser,
                   chapters, editingState, newUser, alerted, ops, slot, view>>

LoadNext == Load

LoadSpec == LoadInit /\ [][LoadNext]_vars

\* users is a sequence of strings and records is a mapping
SchemaValid(v) ==
    /\ v.type = "object"
    /\ {"users", "records"} \subseteq DOMAIN v.fields
    /\ v.fields["users"].type = "array"
    /\ \A i \in 1..Len(v.fields["users"].items) :
          v.fields["users"].items[i].type = "string"
    /\ v.fields["records"].type = "object"

\* C10: getInitialData returns the stored value when it is schema-valid and
\* the default store (the five seed members, no records) otherwise.
C10_LoadValidates ==
    lastOp.kind = "load" =>
        loaded = (IF slot.kind = "json" /\ SchemaValid(slot.value)
                  THEN slot.value
                  ELSE ToJSON(DefaultData, <<>>))

====
